---------------------------- MODULE Spec2Model ----------------------------
(***************************************************************************)
(* Model of modules/full/smart_home_devices_helper.py: the per-device      *)
(* worker threads (SmartBulbThread, OutletDeviceThread), the two managers  *)
(* (LightManager, OutletManager) and the rotation worker of LightManager.  *)
(*                                                                         *)
(* Threads are interleaved at the granularity of the shared reads and      *)
(* writes of the Python code.  The condition variable of a worker is       *)
(* modelled as CPython's threading.Condition behaves: wait() releases the  *)
(* lock, notify() wakes only a thread that is blocked in wait(), and the   *)
(* worker holds the lock from its wake-up to the end of the with block.    *)
(***************************************************************************)
EXTENDS Integers, Sequences, FiniteSets, TLC

(***************************************************************************)
(* Bounds of the model.                                                    *)
(***************************************************************************)
\* number of manager calls the caller threads issue in one behaviour
MaxCalls == 3
\* largest speed (steps of a pass) passed to rotate()
MaxSpeed == 2
\* number of rotate() calls in a behaviour of SpecRotation
MaxControl == 1

(***************************************************************************)
(* Strings are sequences of one-character strings, so that the code's      *)
(* regular expression, slicing, int(.., 16) and lower() are computed.      *)
(***************************************************************************)
HexDigits == {"0","1","2","3","4","5","6","7","8","9",
              "a","b","c","d","e","f","A","B","C","D","E","F"}

HexVal(ch) ==
    CASE ch = "0" -> 0  [] ch = "1" -> 1  [] ch = "2" -> 2  [] ch = "3" -> 3
      [] ch = "4" -> 4  [] ch = "5" -> 5  [] ch = "6" -> 6  [] ch = "7" -> 7
      [] ch = "8" -> 8  [] ch = "9" -> 9
      [] ch \in {"a","A"} -> 10 [] ch \in {"b","B"} -> 11
      [] ch \in {"c","C"} -> 12 [] ch \in {"d","D"} -> 13
      [] ch \in {"e","E"} -> 14 [] ch \in {"f","F"} -> 15

RECURSIVE HexInt(_)
\* int(s, 16) of a sequence of hex digits
HexInt(s) ==
    IF s = <<>> THEN 0
    ELSE 16 * HexInt(SubSeq(s, 1, Len(s) - 1)) + HexVal(s[Len(s)])

\* colorsys.hsv_to_rgb on h = H/360.0, s = S/1000.0, v = V/1000.0, each channel
\* then int(x * 255); computed in exact integer arithmetic.
HsvToRgb(H, S, V) ==
    LET i == H \div 60
        m == H % 60
        v == (255 * V) \div 1000
        p == (255 * V * (1000 - S)) \div 1000000
        q == (255 * V * (60000 - S * m)) \div 60000000
        t == (255 * V * (60000 - S * (60 - m))) \div 60000000
    IN  IF S = 0 THEN <<v, v, v>>
        ELSE CASE i % 6 = 0 -> <<v, t, p>>
               [] i % 6 = 1 -> <<q, v, p>>
               [] i % 6 = 2 -> <<p, v, t>>
               [] i % 6 = 3 -> <<p, q, v>>
               [] i % 6 = 4 -> <<t, p, v>>
               [] i % 6 = 5 -> <<v, p, q>>

\* SmartBulbThread.hsv_string_to_rgb: hhhhssssvvvv -> (R, G, B)
hsv_string_to_rgb(hsv) ==
    HsvToRgb(HexInt(SubSeq(hsv, 1, 4)), HexInt(SubSeq(hsv, 5, 8)),
             HexInt(SubSeq(hsv, 9, 12)))

(***************************************************************************)
(* Inputs: device names, colours, status payloads of the driver.           *)
(***************************************************************************)
Red   == <<255, 0, 0>>
Blue  == <<0, 0, 255>>
Black == <<0, 0, 0>>

\* colours a caller passes to set_color
Colors == {Red, Blue}

\* the payloads device.status() may return for a bulb: dps['24'] is the
\* hhhhssssvvvv string; a payload without 'dps' is an error answer
HsvRed  == <<"0","0","0","0","0","3","e","8","0","3","e","8">>
HsvBlue == <<"0","0","f","0","0","3","e","8","0","3","e","8">>
BulbStatusPayloads ==
    {[dps |-> TRUE, v |-> HsvRed], [dps |-> TRUE, v |-> HsvBlue],
     [dps |-> FALSE, v |-> <<>>]}
\* for an outlet dps['1'] is the power state
OutletStatusPayloads ==
    {[dps |-> TRUE, v |-> TRUE], [dps |-> TRUE, v |-> FALSE],
     [dps |-> FALSE, v |-> FALSE]}

NameA == <<"A">>
NameB == <<"B">>
NameC == <<"C">>
NameP == <<"P">>

Callers == {"t1", "t2"}

VARIABLES
    bulb_params,            \* LightManager.bulb_params: list of dicts
    outlet_param,           \* OutletManager.outlet_param: list of dicts
    status_data,            \* the payload device.status() returns to each worker (`data`)
    pc,                     \* position of every device worker thread in run()
    val,                    \* SmartBulbThread.color / OutletDeviceThread.state
    is_running,             \* the worker thread's own is_running flag
    connection_event,       \* threading.Event per worker
    status_event,           \* threading.Event per worker
    device,                 \* the driver of each worker: <<>>, or <<v>> after v was written last
    lm_is_running,          \* LightManager.is_running
    om_is_running,          \* OutletManager.is_running
    bulb_colors,            \* LightManager.bulb_colors (the cache)
    bulbs_ready,            \* LightManager.bulbs_ready
    is_rotation_active,     \* LightManager.is_rotation_active
    rotation_speed,         \* LightManager.rotation_speed
    rotation_clockwise,     \* LightManager.rotation_clockwise
    bulb_rotation_colors,   \* LightManager.bulb_rotation_colors (the ring)
    rw,                     \* rotation_worker thread: position and locals
    call,                   \* the manager call each thread is inside
    ret,                    \* what the last call of each thread returned
    ncalls,                 \* number of calls the caller threads have begun
    pending,                \* history: first and last value stored since the worker entered its wait
    served,                 \* history: the stores of the wait before the last write, if none since
    shut,                   \* history: the managers whose shutdown() has returned
    clean,                  \* history: the current pass began at cycle 0 with the ring
                            \*   complete, and rotate() or stop() was not called since
                            \*   the first pass of this undisturbed run began
    jtick,                  \* history: ticks begun in the current pass, while clean
    passes,                 \* history: passes completed in the undisturbed run, modulo
                            \*   the ring size
    ring0,                  \* history: the ring when the undisturbed run began
    stopped,                \* history: stop() was called and rotate() not since
    first_tick              \* history: "armed" once rotate() has returned, "first" during
                            \*   the first tick that begins after that

cfgVars    == <<bulb_params, outlet_param, status_data>>
workerVars == <<pc, val, is_running, connection_event, status_event, device>>
mgrVars    == <<lm_is_running, om_is_running, bulb_colors, bulbs_ready>>
rotVars    == <<is_rotation_active, rotation_speed, rotation_clockwise,
                bulb_rotation_colors, rw>>
callVars   == <<call, ret, ncalls>>
histWVars  == <<pending, served>>
histRVars  == <<clean, jtick, passes, ring0, stopped, first_tick>>

vars == <<cfgVars, workerVars, mgrVars, rotVars, callVars, histWVars, shut,
          histRVars>>

(***************************************************************************)
(* Worker threads.  Bulb(i) is LightManager.bulb_threads[i-1], Outlet(i)   *)
(* is OutletManager.outlet_threads[i-1].                                   *)
(***************************************************************************)
Bulb(i)   == <<"bulb", i>>
Outlet(i) == <<"outlet", i>>
IsBulb(t) == t[1] = "bulb"

BulbThreads   == {Bulb(i) : i \in 1..Len(bulb_params)}
OutletThreads == {Outlet(i) : i \in 1..Len(outlet_param)}
Threads       == BulbThreads \cup OutletThreads

\* a condition whose lock is never seen as taken
LockHeld_never(t) == FALSE

\* the worker owns the lock of its condition from the wake-up of wait() to the
\* end of the with block (lines 67-71, 395-399)
LockHeld(t) == pc[t] \in {"set", "settle", "pause"}

\* a start-up that creates the driver object and leaves the event alone
Connect_silent(t) ==
    /\ pc[t] = "start"
    /\ pc' = [pc EXCEPT ![t] = "status"]
    /\ UNCHANGED <<cfgVars, val, is_running, connection_event, status_event, device,
                   mgrVars, rotVars, callVars, pending, served, shut, histRVars>>

\* lines 46-55 / 370-379: create the driver object, set the connection event
Connect(t) ==
    /\ pc[t] = "start"
    /\ connection_event' = [connection_event EXCEPT ![t] = TRUE]
    /\ pc' = [pc EXCEPT ![t] = "status"]
    /\ UNCHANGED <<cfgVars, val, is_running, status_event, device, mgrVars, rotVars,
                   callVars, pending, served, shut, histRVars>>

\* lines 58-63: a bulb keeps its colour unless the payload holds 'dps'
BulbStatusColor(old, d) ==
    IF d.dps THEN hsv_string_to_rgb(d.v) ELSE old

\* lines 383-390: an outlet resets its state to False, then reads dps['1']
OutletStatusState(old, d) ==
    IF d.dps THEN d.v ELSE FALSE

\* lines 57-63 / 381-391: one status query, decoded into the worker's value
QueryStatus(t) ==
    /\ pc[t] = "status"
    /\ val' = [val EXCEPT ![t] =
                 IF IsBulb(t) THEN BulbStatusColor(val[t], status_data[t])
                 ELSE OutletStatusState(val[t], status_data[t])]
    /\ pc' = [pc EXCEPT ![t] = "statusset"]
    /\ UNCHANGED <<cfgVars, is_running, connection_event, status_event, device, mgrVars, rotVars,
                   callVars, pending, served, shut, histRVars>>

\* line 64 / 392
SetStatusEvent(t) ==
    /\ pc[t] = "statusset"
    /\ status_event' = [status_event EXCEPT ![t] = TRUE]
    /\ pc' = [pc EXCEPT ![t] = "loop"]
    /\ UNCHANGED <<cfgVars, val, is_running, connection_event, device, mgrVars, rotVars,
                   callVars, pending, served, shut, histRVars>>

\* lines 66-68 / 394-396: the loop test, then the with block is entered and
\* wait() releases the lock and blocks
LoopTop(t) ==
    /\ pc[t] = "loop"
    /\ pc' = [pc EXCEPT ![t] = IF is_running[t] THEN "waiting" ELSE "terminated"]
    /\ pending' = [pending EXCEPT ![t] = <<>>]
    /\ UNCHANGED <<cfgVars, val, is_running, connection_event, status_event, device, mgrVars, rotVars,
                   callVars, served, shut, histRVars>>

\* a wait() without a timeout
WaitTimeout_never(t) == FALSE /\ UNCHANGED vars

\* line 68 / 396: wait(timeout=0.5) runs out; the lock is not yet re-acquired
WaitTimeout(t) ==
    /\ pc[t] = "waiting"
    /\ pc' = [pc EXCEPT ![t] = "timedout"]
    /\ UNCHANGED <<cfgVars, val, is_running, connection_event, status_event, device, mgrVars, rotVars,
                   callVars, pending, served, shut, histRVars>>

\* lines 68-69 / 396-397: wait() re-acquires the lock and returns whether the
\* thread was notified
WakeUp(t) ==
    /\ pc[t] \in {"notified", "timedout"}
    /\ pc' = [pc EXCEPT ![t] = IF pc[t] = "notified" THEN "set" ELSE "pause"]
    /\ UNCHANGED <<cfgVars, val, is_running, connection_event, status_event, device, mgrVars, rotVars,
                   callVars, pending, served, shut, histRVars>>

\* a worker that applies the value of the store that woke it
ValueToApply_first(t) == IF pending[t] # <<>> THEN pending[t][1] ELSE val[t]

\* line 70 / 398: the value handed to set_color / set_state is the worker's
\* current field
ValueToApply(t) == val[t]

\* lines 36-40 / 358-365: set_color(self.color) / set_state(self.state) writes
\* the value to the driver
SetValue(t) ==
    /\ pc[t] = "set"
    /\ val' = [val EXCEPT ![t] = ValueToApply(t)]
    /\ device' = [device EXCEPT ![t] = <<ValueToApply(t)>>]
    /\ served' = [served EXCEPT ![t] = IF Len(pending[t]) >= 2 THEN pending[t] ELSE <<>>]
    /\ pc' = [pc EXCEPT ![t] = "settle"]
    /\ UNCHANGED <<cfgVars, is_running, connection_event, status_event, mgrVars, rotVars,
                   callVars, pending, shut, histRVars>>

\* line 43 / 367: time.sleep(0.2) inside set_color, the lock still held
Settle(t) ==
    /\ pc[t] = "settle"
    /\ pc' = [pc EXCEPT ![t] = "pause"]
    /\ UNCHANGED <<cfgVars, val, is_running, connection_event, status_event, device, mgrVars, rotVars,
                   callVars, pending, served, shut, histRVars>>

\* line 71 / 399: time.sleep(0.01), then the with block releases the lock
Pause(t) ==
    /\ pc[t] = "pause"
    /\ pc' = [pc EXCEPT ![t] = "loop"]
    /\ UNCHANGED <<cfgVars, val, is_running, connection_event, status_event, device, mgrVars, rotVars,
                   callVars, pending, served, shut, histRVars>>

Worker(t) ==
    \/ Connect(t)
    \/ QueryStatus(t)
    \/ SetStatusEvent(t)
    \/ LoopTop(t)
    \/ WaitTimeout(t)
    \/ WakeUp(t)
    \/ SetValue(t)
    \/ Settle(t)
    \/ Pause(t)

(***************************************************************************)
(* Calls into the managers.  call[c] holds the position of thread c inside *)
(* the manager method it is executing, ret[c] what its last call returned. *)
(* "rw" is the rotation_worker thread, which calls set_color like any      *)
(* other caller.                                                           *)
(***************************************************************************)
AllCallers == Callers \cup {"rw"}

NoThread == <<"none", 0>>
NoCall == [op |-> "none", pc |-> "idle", name |-> <<>>, arg |-> <<>>,
           tmp |-> <<>>, t |-> NoThread, k |-> 0]
NoRet  == [op |-> "none", name |-> <<>>, arg |-> <<>>, outcome |-> "none",
           result |-> "none", state |-> <<>>, reason |-> "", cached |-> <<>>]

Idle(c) == call[c].pc = "idle"

\* a caller thread may begin another call
MayCall(c) == c \in Callers /\ Idle(c) /\ ncalls < MaxCalls

\* lines 143-149: index of the first bulb of that name, -1 when there is none
find_bulb_index(name) ==
    LET hits == {i \in 1..Len(bulb_params) : bulb_params[i]["name"] = name}
    IN  IF hits = {} THEN -1
        ELSE (CHOOSE i \in hits : \A j \in hits : i <= j) - 1

\* lines 204-205, 226-227: the first bulb thread whose bulb_param['name'] is name
BulbThreadNamed(name) ==
    LET hits == {i \in 1..Len(bulb_params) : bulb_params[i]["name"] = name}
    IN  IF hits = {} THEN NoThread
        ELSE Bulb(CHOOSE i \in hits : \A j \in hits : i <= j)

\* lines 194-201: the unknown-name branch of set_color reads b["Name"] of every
\* configured bulb; a dict without that key raises KeyError
UnknownBulbName(op, name, arg) ==
    IF \A i \in 1..Len(bulb_params) : "Name" \in DOMAIN bulb_params[i]
    THEN [op |-> op, name |-> name, arg |-> arg, outcome |-> "return",
          result |-> "error",
          state |-> [i \in 1..Len(bulb_params) |-> bulb_params[i]["Name"]],
          reason |-> "bulb name does not exist, must be one of these: ",
          cached |-> <<>>]
    ELSE [op |-> op, name |-> name, arg |-> arg, outcome |-> "raise",
          result |-> "KeyError", state |-> <<>>, reason |-> "Name",
          cached |-> <<>>]

\* lines 193-205: set_color up to the call of change_color: the lookup, the
\* error branch, the store into the cache
set_color_enter(c, op, name, arg, color) ==
    LET i == find_bulb_index(name)
    IN  IF i = -1
        THEN /\ ret' = [ret EXCEPT ![c] = UnknownBulbName(op, name, arg)]
             /\ call' = [call EXCEPT ![c] = NoCall]
             /\ UNCHANGED bulb_colors
        ELSE /\ bulb_colors' = [bulb_colors EXCEPT ![i + 1] = color]
             /\ call' = [call EXCEPT ![c] =
                           [op |-> op, pc |-> "change", name |-> name,
                            arg |-> arg, tmp |-> color,
                            t |-> BulbThreadNamed(name), k |-> i + 1]]
             /\ UNCHANGED ret

\* LightManager.set_color(bulb_name, color) called by a caller thread
SetColor(c, name, color) ==
    /\ MayCall(c)
    /\ ncalls' = ncalls + 1
    /\ set_color_enter(c, "set_color", name, color, color)
    /\ UNCHANGED <<cfgVars, workerVars, lm_is_running, om_is_running, bulbs_ready,
                   rotVars, histWVars, shut, histRVars>>

\* line 30 / 355: self.color = color
Store(old, new) == new

\* line 31 / 356: notify() wakes the worker only when it is blocked in wait()
Notify(p) == IF p = "waiting" THEN "notified" ELSE p

\* lines 206-211 and 27-31 (bulb), 426-431 and 352-356 (outlet): change_color /
\* change_state takes the lock of the condition, stores the value, notifies,
\* and the manager method returns its success result
ChangeValue(c) ==
    LET t == call[c].t
        v == call[c].tmp
    IN  /\ call[c].pc = "change"
        /\ ~LockHeld(t)
        /\ val' = [val EXCEPT ![t] = Store(val[t], v)]
        /\ pc' = [pc EXCEPT ![t] = Notify(pc[t])]
        /\ pending' = [pending EXCEPT ![t] =
                         IF pc[t] \notin {"waiting", "notified"} THEN @
                         ELSE IF Len(@) < 2 THEN Append(@, v) ELSE <<@[1], v>>]
        /\ served' = [served EXCEPT ![t] = <<>>]
        /\ ret' = [ret EXCEPT ![c] =
                     [op |-> call[c].op, name |-> call[c].name, arg |-> call[c].arg,
                      outcome |-> "return", result |-> "success", state |-> v,
                      reason |-> "",
                      cached |-> IF IsBulb(t) THEN bulb_colors[call[c].k] ELSE <<>>]]
        /\ call' = [call EXCEPT ![c] = NoCall]
        /\ UNCHANGED <<cfgVars, is_running, connection_event, status_event,
                       device, mgrVars, rotVars, ncalls, shut, histRVars>>

(***************************************************************************)
(* LightManager: set_color_hex, get_color, wait_ready.                     *)
(***************************************************************************)
\* lines 151-156: re.match("^#[0-9a-fA-F]{6}$", s).  In Python's re, $ matches
\* at the end of the string and also just before a newline that ends it.
is_valid_hex_color(s) ==
    /\ \/ Len(s) = 7
       \/ Len(s) = 8 /\ s[8] = "\n"
    /\ s[1] = "#"
    /\ \A k \in 2..7 : s[k] \in HexDigits

\* lines 158-170
convert_from_hex(s) ==
    LET h == IF Len(s) > 0 /\ s[1] = "#" THEN SubSeq(s, 2, Len(s)) ELSE s
    IN  <<HexInt(SubSeq(h, 1, 2)), HexInt(SubSeq(h, 3, 4)), HexInt(SubSeq(h, 5, 6))>>

\* lines 172-184: LightManager.set_color_hex(bulb_name, color_string)
SetColorHex(c, name, str) ==
    /\ MayCall(c)
    /\ ncalls' = ncalls + 1
    /\ IF ~is_valid_hex_color(str)
       THEN /\ ret' = [ret EXCEPT ![c] =
                         [op |-> "set_color_hex", name |-> name, arg |-> str,
                          outcome |-> "return", result |-> "error", state |-> <<>>,
                          reason |-> "color must be hex string like #C0C0C0",
                          cached |-> <<>>]]
            /\ UNCHANGED <<call, bulb_colors>>
       ELSE set_color_enter(c, "set_color_hex", name, str, convert_from_hex(str))
    /\ UNCHANGED <<cfgVars, workerVars, lm_is_running, om_is_running, bulbs_ready,
                   rotVars, histWVars, shut, histRVars>>

\* lines 224-229: get_color finds the thread, then reads its color field
GetColor(c, name) ==
    /\ MayCall(c)
    /\ ncalls' = ncalls + 1
    /\ IF BulbThreadNamed(name) = NoThread
       THEN /\ ret' = [ret EXCEPT ![c] =
                         [op |-> "get_color", name |-> name, arg |-> <<>>,
                          outcome |-> "return", result |-> "None", state |-> <<>>,
                          reason |-> "", cached |-> <<>>]]
            /\ UNCHANGED call
       ELSE /\ call' = [call EXCEPT ![c] =
                          [op |-> "get_color", pc |-> "gc_store", name |-> name,
                           arg |-> <<>>, tmp |-> val[BulbThreadNamed(name)],
                           t |-> BulbThreadNamed(name),
                           k |-> find_bulb_index(name) + 1]]
            /\ UNCHANGED ret
    /\ UNCHANGED <<cfgVars, workerVars, mgrVars, rotVars, histWVars, shut, histRVars>>

\* lines 229-230: the color read is stored into the cache and returned
GetColorStore(c) ==
    /\ call[c].pc = "gc_store"
    /\ bulb_colors' = [bulb_colors EXCEPT ![call[c].k] = call[c].tmp]
    /\ ret' = [ret EXCEPT ![c] =
                 [op |-> "get_color", name |-> call[c].name, arg |-> <<>>,
                  outcome |-> "return", result |-> "success", state |-> call[c].tmp,
                  reason |-> "", cached |-> call[c].tmp]]
    /\ call' = [call EXCEPT ![c] = NoCall]
    /\ UNCHANGED <<cfgVars, workerVars, lm_is_running, om_is_running, bulbs_ready,
                   rotVars, ncalls, histWVars, shut, histRVars>>

\* a wait that returns whether or not the event is set
EventWait_nowait(e) == TRUE

\* Event.wait() returns once the event is set
EventWait(e) == e

\* line 122: LightManager.wait_ready() is entered
WaitReady(c) ==
    /\ MayCall(c)
    /\ Len(bulb_params) > 0
    /\ ncalls' = ncalls + 1
    /\ call' = [call EXCEPT ![c] = [NoCall EXCEPT !.op = "wait_ready",
                                                  !.pc = "wr_conn", !.k = 1]]
    /\ UNCHANGED <<cfgVars, workerVars, mgrVars, rotVars, ret, histWVars, shut, histRVars>>

\* lines 125-126: event.wait() on the connection event of bulb k
WaitReadyConn(c) ==
    /\ call[c].pc = "wr_conn"
    /\ EventWait(connection_event[Bulb(call[c].k)])
    /\ call' = [call EXCEPT ![c] =
                  IF call[c].k < Len(bulb_params)
                  THEN [@ EXCEPT !.k = @ + 1]
                  ELSE [@ EXCEPT !.pc = "wr_status", !.k = 1]]
    /\ UNCHANGED <<cfgVars, workerVars, mgrVars, rotVars, ret, ncalls, histWVars,
                   shut, histRVars>>

\* lines 129-130: event.wait() on the status event of bulb k
WaitReadyStatus(c) ==
    /\ call[c].pc = "wr_status"
    /\ EventWait(status_event[Bulb(call[c].k)])
    /\ call' = [call EXCEPT ![c] =
                  IF call[c].k < Len(bulb_params)
                  THEN [@ EXCEPT !.k = @ + 1]
                  ELSE [@ EXCEPT !.pc = "wr_snap", !.k = 1]]
    /\ UNCHANGED <<cfgVars, workerVars, mgrVars, rotVars, ret, ncalls, histWVars,
                   shut, histRVars>>

\* lines 133-136: the color of thread k is copied into the cache; after the
\* last one bulbs_ready is set and wait_ready returns
WaitReadySnap(c) ==
    LET k == call[c].k
        i == find_bulb_index(bulb_params[k]["name"])
        last == k = Len(bulb_params)
    IN  /\ call[c].pc = "wr_snap"
        /\ bulb_colors' = [bulb_colors EXCEPT ![i + 1] = val[Bulb(k)]]
        /\ bulbs_ready' = IF last THEN TRUE ELSE bulbs_ready
        /\ call' = [call EXCEPT ![c] = IF last THEN NoCall ELSE [@ EXCEPT !.k = @ + 1]]
        /\ ret' = [ret EXCEPT ![c] =
                     IF last
                     THEN [NoRet EXCEPT !.op = "wait_ready", !.outcome = "return",
                                        !.cached = bulb_colors']
                     ELSE @]
        /\ UNCHANGED <<cfgVars, workerVars, lm_is_running, om_is_running, rotVars,
                       ncalls, histWVars, shut, histRVars>>

(***************************************************************************)
(* OutletManager.set_state, and shutdown() of both managers.               *)
(***************************************************************************)
\* str.lower() on the letters the model's names use
LowerChar(ch) ==
    CASE ch = "A" -> "a" [] ch = "B" -> "b" [] ch = "C" -> "c"
      [] ch = "P" -> "p" [] ch = "Q" -> "q" [] OTHER -> ch

Lower(s) == [k \in 1..Len(s) |-> LowerChar(s[k])]

\* a lookup that compares the names as they are written
find_outlet_index_exact(name) ==
    LET hits == {i \in 1..Len(outlet_param) : outlet_param[i]["name"] = name}
    IN  IF hits = {} THEN -1
        ELSE (CHOOSE i \in hits : \A j \in hits : i <= j) - 1

\* lines 433-438
find_outlet_index(name) ==
    LET hits == {i \in 1..Len(outlet_param) :
                    Lower(outlet_param[i]["name"]) = Lower(name)}
    IN  IF hits = {} THEN -1
        ELSE (CHOOSE i \in hits : \A j \in hits : i <= j) - 1

\* lines 424-425, 442-443: the first outlet thread whose lowered name matches
OutletThreadNamed(name) ==
    LET hits == {i \in 1..Len(outlet_param) :
                    Lower(outlet_param[i]["name"]) = Lower(name)}
    IN  IF hits = {} THEN NoThread
        ELSE Outlet(CHOOSE i \in hits : \A j \in hits : i <= j)

\* lines 414-425: OutletManager.set_state up to the call of change_state
SetState(c, name, state) ==
    /\ MayCall(c)
    /\ ncalls' = ncalls + 1
    /\ IF find_outlet_index(name) = -1
       THEN /\ ret' = [ret EXCEPT ![c] =
                         [op |-> "set_state", name |-> name, arg |-> state,
                          outcome |-> "return", result |-> "error", state |-> <<>>,
                          reason |-> "outlet name not found", cached |-> <<>>]]
            /\ UNCHANGED call
       ELSE /\ call' = [call EXCEPT ![c] =
                          [op |-> "set_state", pc |-> "change", name |-> name,
                           arg |-> state, tmp |-> state,
                           t |-> OutletThreadNamed(name),
                           k |-> find_outlet_index(name) + 1]]
            /\ UNCHANGED ret
    /\ UNCHANGED <<cfgVars, workerVars, mgrVars, rotVars, histWVars, shut, histRVars>>

\* lines 440-455: OutletManager.get_state(outlet_name).  The error result is
\* built inside the branch of the matching thread; when no thread matches the
\* for loop ends and the method returns None
GetState(c, name) ==
    /\ MayCall(c)
    /\ ncalls' = ncalls + 1
    /\ ret' = [ret EXCEPT ![c] =
                 IF OutletThreadNamed(name) = NoThread
                 THEN [op |-> "get_state", name |-> name, arg |-> <<>>,
                       outcome |-> "return", result |-> "None", state |-> <<>>,
                       reason |-> "", cached |-> <<>>]
                 ELSE IF find_outlet_index(name) = -1
                 THEN [op |-> "get_state", name |-> name, arg |-> <<>>,
                       outcome |-> "return", result |-> "error", state |-> <<>>,
                       reason |-> "outlet name not found", cached |-> <<>>]
                 ELSE [op |-> "get_state", name |-> name, arg |-> <<>>,
                       outcome |-> "return", result |-> "success",
                       state |-> val[OutletThreadNamed(name)],
                       reason |-> "", cached |-> <<>>]]
    /\ UNCHANGED <<cfgVars, workerVars, mgrVars, rotVars, call, histWVars, shut,
                   histRVars>>

\* the worker threads of a manager, in list order
MgrThreads(m) ==
    IF m = "light" THEN [i \in 1..Len(bulb_params) |-> Bulb(i)]
    ELSE [i \in 1..Len(outlet_param) |-> Outlet(i)]

\* lines 113-115 / 457-459: shutdown() clears the manager's is_running
Shutdown(c, m) ==
    /\ MayCall(c)
    /\ Len(MgrThreads(m)) > 0
    /\ ncalls' = ncalls + 1
    /\ lm_is_running' = IF m = "light" THEN FALSE ELSE lm_is_running
    /\ om_is_running' = IF m = "outlet" THEN FALSE ELSE om_is_running
    /\ call' = [call EXCEPT ![c] = [NoCall EXCEPT !.op = "shutdown", !.arg = m,
                                                  !.pc = "sd_stop", !.k = 1]]
    /\ UNCHANGED <<cfgVars, workerVars, bulb_colors, bulbs_ready, rotVars, ret,
                   histWVars, shut, histRVars>>

\* lines 116-117 / 460-461 with 33-34 / 349-350: thread.shutdown() of thread k
ShutdownStop(c) ==
    LET ths == MgrThreads(call[c].arg)
    IN  /\ call[c].pc = "sd_stop"
        /\ is_running' = [is_running EXCEPT ![ths[call[c].k]] = FALSE]
        /\ call' = [call EXCEPT ![c] =
                      IF call[c].k < Len(ths)
                      THEN [@ EXCEPT !.k = @ + 1]
                      ELSE [@ EXCEPT !.pc = "sd_join", !.k = 1]]
        /\ UNCHANGED <<cfgVars, pc, val, connection_event, status_event,
                       device, mgrVars, rotVars, ret, ncalls, histWVars, shut,
                       histRVars>>

\* a join that returns without waiting for the thread
Joined_nowait(t) == TRUE

\* Thread.join() returns once run() of the thread has ended
Joined(t) == pc[t] = "terminated"

\* lines 119-120 / 463-464: thread.join() of thread k; after the last join
\* shutdown() returns
ShutdownJoin(c) ==
    LET ths == MgrThreads(call[c].arg)
        last == call[c].k = Len(ths)
    IN  /\ call[c].pc = "sd_join"
        /\ Joined(ths[call[c].k])
        /\ call' = [call EXCEPT ![c] = IF last THEN NoCall ELSE [@ EXCEPT !.k = @ + 1]]
        /\ ret' = [ret EXCEPT ![c] =
                     IF last
                     THEN [NoRet EXCEPT !.op = "shutdown", !.arg = call[c].arg,
                                        !.outcome = "return"]
                     ELSE @]
        /\ shut' = IF last THEN shut \cup {call[c].arg} ELSE shut
        /\ UNCHANGED <<cfgVars, workerVars, mgrVars, rotVars, ncalls, histWVars,
                       histRVars>>

(***************************************************************************)
(* LightManager.rotate, stop and the rotation_worker thread.               *)
(***************************************************************************)
\* int(x) of the rational a / b, b > 0: truncation towards zero
TruncDiv(a, b) == IF a >= 0 THEN a \div b ELSE -((-a) \div b)

\* lines 307-317: interpolate_color(color1, color2, interpolationGrade) with
\* interpolationGrade = num / den
interpolate_color(color1, color2, num, den) ==
    [ch \in 1..3 |->
        TruncDiv(color1[ch] * den + num * (color2[ch] - color1[ch]), den)]

\* line 236: rotate(speed, update_pause, clockwise) empties the ring
Rotate(c, speed, clockwise) ==
    /\ MayCall(c)
    /\ Len(bulb_params) > 0
    /\ ncalls' = ncalls + 1
    /\ stopped' = FALSE
    /\ clean' = FALSE
    /\ jtick' = 0
    /\ passes' = 0
    /\ ring0' = <<>>
    /\ first_tick' = "none"
    /\ bulb_rotation_colors' = <<>>
    /\ call' = [call EXCEPT ![c] =
                  [NoCall EXCEPT !.op = "rotate", !.pc = "rot_read", !.k = 1,
                                 !.arg = [speed |-> speed, clockwise |-> clockwise,
                                          ring |-> <<>>]]]
    /\ UNCHANGED <<cfgVars, workerVars, mgrVars, is_rotation_active, rotation_speed,
                   rotation_clockwise, rw, ret, histWVars, shut>>

\* lines 238-240 with 226-229: get_color(bulbname) reads the thread's color
RotateRead(c) ==
    /\ call[c].pc = "rot_read"
    /\ call' = [call EXCEPT ![c] =
                  [@ EXCEPT !.pc = "rot_store",
                            !.tmp = val[BulbThreadNamed(bulb_params[call[c].k]["name"])]]]
    /\ UNCHANGED <<cfgVars, workerVars, mgrVars, rotVars, ret, ncalls, histWVars,
                   shut, histRVars>>

\* lines 229-230, 241: the color is stored into the cache and appended to the ring
RotateStore(c) ==
    LET k == call[c].k
        i == find_bulb_index(bulb_params[k]["name"])
    IN  /\ call[c].pc = "rot_store"
        /\ bulb_colors' = [bulb_colors EXCEPT ![i + 1] = call[c].tmp]
        /\ bulb_rotation_colors' = Append(bulb_rotation_colors, call[c].tmp)
        /\ call' = [call EXCEPT ![c] =
                      [@ EXCEPT !.pc = IF k < Len(bulb_params) THEN "rot_read"
                                       ELSE "rot_params",
                                !.k = k + 1,
                                !.arg = [@ EXCEPT !.ring = Append(@, call[c].tmp)]]]
        /\ UNCHANGED <<cfgVars, workerVars, lm_is_running, om_is_running, bulbs_ready,
                       is_rotation_active, rotation_speed, rotation_clockwise, rw,
                       ret, ncalls, histWVars, shut, histRVars>>

\* lines 242-244
RotateParams(c) ==
    /\ call[c].pc = "rot_params"
    /\ rotation_speed' = call[c].arg.speed
    /\ rotation_clockwise' = call[c].arg.clockwise
    /\ call' = [call EXCEPT ![c] = [@ EXCEPT !.pc = "rot_on"]]
    /\ UNCHANGED <<cfgVars, workerVars, mgrVars, is_rotation_active,
                   bulb_rotation_colors, rw, ret, ncalls, histWVars, shut,
                   histRVars>>

\* line 245: the rotation is switched on and rotate() returns
RotateOn(c) ==
    /\ call[c].pc = "rot_on"
    /\ is_rotation_active' = TRUE
    /\ first_tick' = "armed"
    /\ ret' = [ret EXCEPT ![c] = [NoRet EXCEPT !.op = "rotate", !.outcome = "return",
                                               !.arg = call[c].arg]]
    /\ call' = [call EXCEPT ![c] = NoCall]
    /\ UNCHANGED <<cfgVars, workerVars, mgrVars, rotation_speed, rotation_clockwise,
                   bulb_rotation_colors, rw, ncalls, histWVars, shut, clean, jtick,
                   passes, ring0, stopped>>

\* lines 279-280: LightManager.stop()
Stop(c) ==
    /\ MayCall(c)
    /\ Len(bulb_params) > 0
    /\ ncalls' = ncalls + 1
    /\ stopped' = (\A d \in Callers : call[d].op # "rotate")
    /\ clean' = FALSE
    /\ jtick' = 0
    /\ passes' = 0
    /\ ring0' = <<>>
    /\ is_rotation_active' = FALSE
    /\ ret' = [ret EXCEPT ![c] = [NoRet EXCEPT !.op = "stop", !.outcome = "return"]]
    /\ UNCHANGED <<cfgVars, workerVars, mgrVars, rotation_speed, rotation_clockwise,
                   bulb_rotation_colors, rw, call, histWVars, shut, first_tick>>

\* lines 249-250, 274: the loop test of rotation_worker and the test of
\* is_rotation_active; an inactive round only sleeps
RotNext_always(running, active) == IF ~running THEN "done" ELSE "tick"

RotNext(running, active) ==
    IF ~running THEN "done" ELSE IF active THEN "tick" ELSE "loop"

RotCheck ==
    /\ rw.pc = "loop"
    /\ rw' = [rw EXCEPT !.pc = RotNext(lm_is_running, is_rotation_active)]
    /\ first_tick' = IF rw'.pc = "tick" /\ first_tick = "armed" THEN "first"
                     ELSE first_tick
    /\ UNCHANGED <<cfgVars, workerVars, mgrVars, is_rotation_active, rotation_speed,
                   rotation_clockwise, bulb_rotation_colors, callVars, histWVars,
                   shut, clean, jtick, passes, ring0, stopped>>

\* lines 251-253: a pass begins when cycle is 0
RotStart ==
    /\ rw.pc = "tick"
    /\ rw' = IF rw.cycle = 0
             THEN [rw EXCEPT !.pc = "percent", !.cycle = rotation_speed,
                             !.original_colors = bulb_rotation_colors]
             ELSE [rw EXCEPT !.pc = "percent"]
    /\ clean' = IF rw.cycle = 0
                THEN clean \/ \A d \in Callers : call[d].op # "rotate"
                ELSE clean
    /\ jtick' = IF ~clean' THEN 0 ELSE IF rw.cycle = 0 THEN 1 ELSE jtick + 1
    /\ passes' = IF clean THEN passes ELSE 0
    /\ ring0' = IF clean THEN ring0
                ELSE IF clean' THEN bulb_rotation_colors ELSE <<>>
    /\ UNCHANGED <<cfgVars, workerVars, mgrVars, is_rotation_active, rotation_speed,
                   rotation_clockwise, bulb_rotation_colors, callVars, histWVars,
                   shut, stopped, first_tick>>

\* lines 254-255: cycle_percent = (rotation_speed - cycle) / rotation_speed,
\* kept as the fraction num / den; cycle -= 1
RotPercent ==
    /\ rw.pc = "percent"
    /\ rw' = [rw EXCEPT !.pc = "send", !.num = rotation_speed - rw.cycle,
                        !.den = rotation_speed, !.cycle = rw.cycle - 1, !.i = 0]
    /\ UNCHANGED <<cfgVars, workerVars, mgrVars, is_rotation_active, rotation_speed,
                   rotation_clockwise, bulb_rotation_colors, callVars, histWVars,
                   shut, histRVars>>

\* a neighbor index that ignores the direction
next_idx_clockwise(i) == (i + 1) % Len(bulb_params)

\* lines 259-262
next_idx(i) ==
    IF rotation_clockwise THEN (i + 1) % Len(bulb_params)
    ELSE (i - 1) % Len(bulb_params)

\* lines 257-266 with 193-205: one round of the for loop: the interpolated
\* color of bulb i is passed to set_color.  original_colors[..] past the end
\* of the list raises IndexError, which ends the thread
RotSend ==
    LET i == rw.i
        orig == rw.original_colors
    IN  /\ rw.pc = "send"
        /\ i < Len(bulb_params)
        /\ Idle("rw")
        /\ IF i + 1 > Len(orig) \/ next_idx(i) + 1 > Len(orig)
           THEN /\ rw' = [rw EXCEPT !.pc = "crashed"]
                /\ UNCHANGED <<bulb_colors, call, ret>>
           ELSE /\ rw' = [rw EXCEPT !.i = i + 1]
                /\ set_color_enter("rw", "set_color", bulb_params[i + 1]["name"],
                      interpolate_color(orig[i + 1], orig[next_idx(i) + 1],
                                        rw.num, rw.den),
                      interpolate_color(orig[i + 1], orig[next_idx(i) + 1],
                                        rw.num, rw.den))
        /\ UNCHANGED <<cfgVars, workerVars, lm_is_running, om_is_running, bulbs_ready,
                       is_rotation_active, rotation_speed, rotation_clockwise,
                       bulb_rotation_colors, ncalls, histWVars, shut, histRVars>>

\* lines 268-273: the ring moves by one position
RotatedRing(ring) ==
    IF rotation_clockwise
    THEN SubSeq(ring, 2, Len(ring)) \o <<ring[1]>>
    ELSE <<ring[Len(ring)]>> \o SubSeq(ring, 1, Len(ring) - 1)

\* lines 267-274: after the for loop, the ring is rotated when the pass is
\* over (cycle is 0); then the thread sleeps and loops.  Indexing an empty
\* ring raises IndexError
RotEnd ==
    /\ rw.pc = "send"
    /\ rw.i = Len(bulb_params)
    /\ Idle("rw")
    /\ IF rw.cycle = 0
       THEN IF bulb_rotation_colors = <<>>
            THEN /\ rw' = [rw EXCEPT !.pc = "crashed"]
                 /\ UNCHANGED bulb_rotation_colors
            ELSE /\ rw' = [rw EXCEPT !.pc = "loop"]
                 /\ bulb_rotation_colors' = RotatedRing(bulb_rotation_colors)
       ELSE /\ rw' = [rw EXCEPT !.pc = "loop"]
            /\ UNCHANGED bulb_rotation_colors
    /\ passes' = IF clean /\ rw.cycle = 0 THEN (passes + 1) % Len(bulb_params)
                 ELSE passes
    /\ first_tick' = IF first_tick = "first" THEN "none" ELSE first_tick
    /\ UNCHANGED <<cfgVars, workerVars, mgrVars, is_rotation_active, rotation_speed,
                   rotation_clockwise, callVars, histWVars, shut, clean, jtick, ring0,
                   stopped>>

(***************************************************************************)
(* Initial states: the managers as their constructors leave them.          *)
(***************************************************************************)
\* line 92
DefaultRotationSpeed == 10

\* the dicts of the configuration, with the keys run() reads
BulbParam(n) ==
    [name |-> n, id |-> "id", ip |-> "ip", key |-> "key", version |-> "3.3"]
OutletParam(n) ==
    [name |-> n, id |-> "id", ip |-> "ip", key |-> "key", version |-> "3.3"]

ThreadsOf(bp, op) ==
    {Bulb(i) : i \in 1..Len(bp)} \cup {Outlet(i) : i \in 1..Len(op)}

\* the status payloads the drivers of a configuration may return
StatusReplies(bp, op) ==
    {[t \in ThreadsOf(bp, op) |-> IF IsBulb(t) THEN b[t[2]] ELSE o[t[2]]] :
        b \in [1..Len(bp) -> BulbStatusPayloads],
        o \in [1..Len(op) -> OutletStatusPayloads]}

\* every device is on and answers its status query with its data points
GoodStatus(bp, op) ==
    [t \in ThreadsOf(bp, op) |->
        IF IsBulb(t) THEN [dps |-> TRUE, v |-> HsvRed] ELSE [dps |-> TRUE, v |-> TRUE]]

InitWith(bp, op, sd) ==
    LET ths == ThreadsOf(bp, op)
    IN  /\ bulb_params = bp
        /\ outlet_param = op
        /\ status_data = sd
        /\ pc = [t \in ths |-> "start"]
        /\ val = [t \in ths |-> IF IsBulb(t) THEN Black ELSE FALSE]
        /\ is_running = [t \in ths |-> TRUE]
        /\ connection_event = [t \in ths |-> FALSE]
        /\ status_event = [t \in ths |-> FALSE]
        /\ device = [t \in ths |-> <<>>]
        /\ lm_is_running = TRUE
        /\ om_is_running = TRUE
        /\ bulb_colors = [i \in 1..Len(bp) |-> Black]
        /\ bulbs_ready = FALSE
        /\ is_rotation_active = FALSE
        /\ rotation_speed = DefaultRotationSpeed
        /\ rotation_clockwise = TRUE
        /\ bulb_rotation_colors = <<>>
        /\ rw = [pc |-> "loop", cycle |-> 0, original_colors |-> <<>>,
                 num |-> 0, den |-> 1, i |-> 0]
        /\ call = [c \in AllCallers |-> NoCall]
        /\ ret = [c \in AllCallers |-> NoRet]
        /\ ncalls = 0
        /\ pending = [t \in ths |-> <<>>]
        /\ served = [t \in ths |-> <<>>]
        /\ shut = {}
        /\ jtick = 0
        /\ passes = 0
        /\ ring0 = <<>>
        /\ clean = FALSE
        /\ stopped = FALSE
        /\ first_tick = "none"

(***************************************************************************)
(* SpecWorker: one device and its worker thread, a bulb or an outlet, with *)
(* caller threads that request changes and shut the manager down.          *)
(***************************************************************************)
InitWorker ==
    \/ \E sd \in StatusReplies(<<BulbParam(NameA)>>, <<>>) :
          InitWith(<<BulbParam(NameA)>>, <<>>, sd)
    \/ \E sd \in StatusReplies(<<>>, <<OutletParam(NameP)>>) :
          InitWith(<<>>, <<OutletParam(NameP)>>, sd)

NextWorker ==
    \/ \E t \in Threads : Worker(t)
    \/ \E c \in Callers, col \in Colors : SetColor(c, NameA, col)
    \/ \E c \in Callers, st \in BOOLEAN : SetState(c, NameP, st)
    \/ \E c \in AllCallers : ChangeValue(c)
    \/ \E m \in {"light", "outlet"} : Shutdown("t1", m)
    \/ ShutdownStop("t1")
    \/ ShutdownJoin("t1")

SpecWorker == InitWorker /\ [][NextWorker]_vars

(***************************************************************************)
(* SpecCalls: a LightManager of two bulbs with their worker threads.       *)
(* Thread t1 sets colors, by tuple and by hex string, under configured and *)
(* unknown names; thread t2 reads colors and waits for readiness.          *)
(***************************************************************************)
\* color strings passed to set_color_hex
HexInputs ==
    {<<"#","0","0","0","0","f","F">>, <<"#","Z","Z","Z","Z","Z","Z">>,
     <<"0","0","0","0","f","F">>, <<"#","0","0","0","0","f">>,
     <<"#","0","0","0","0","f","F","\n">>}

TwoBulbs == <<BulbParam(NameA), BulbParam(NameB)>>

\* bulb A reports red and B blue, or A reports blue and B no data points
CallsStatus ==
    {[t \in ThreadsOf(TwoBulbs, <<>>) |->
         IF t[2] = 1 THEN [dps |-> TRUE, v |-> HsvRed] ELSE [dps |-> TRUE, v |-> HsvBlue]],
     [t \in ThreadsOf(TwoBulbs, <<>>) |->
         IF t[2] = 1 THEN [dps |-> TRUE, v |-> HsvBlue] ELSE [dps |-> FALSE, v |-> <<>>]]}

InitCalls == \E sd \in CallsStatus : InitWith(TwoBulbs, <<>>, sd)

NextCalls ==
    \/ \E t \in Threads : Worker(t)
    \/ \E n \in {NameA, NameC} : SetColor("t1", n, Blue)
    \/ \E n \in {NameA, NameC}, str \in HexInputs : SetColorHex("t1", n, str)
    \/ \E c \in AllCallers : ChangeValue(c)
    \/ \E n \in {NameA, NameC} : GetColor("t2", n)
    \/ GetColorStore("t2")
    \/ WaitReady("t2")
    \/ WaitReadyConn("t2")
    \/ WaitReadyStatus("t2")
    \/ WaitReadySnap("t2")

SpecCalls == InitCalls /\ [][NextCalls]_vars

(***************************************************************************)
(* SpecLight: one manager with its worker threads: a LightManager of one   *)
(* bulb, whose colors thread t1 rotates, a LightManager of two bulbs, or   *)
(* an OutletManager of two outlets.  t1 shuts the manager down, t2 sets    *)
(* colors and states.                                                      *)
(***************************************************************************)
NameQ == <<"Q">>

TwoOutlets == <<OutletParam(NameP), OutletParam(NameQ)>>

InitLight ==
    \/ InitWith(<<BulbParam(NameA)>>, <<>>, GoodStatus(<<BulbParam(NameA)>>, <<>>))
    \/ InitWith(TwoBulbs, <<>>, GoodStatus(TwoBulbs, <<>>))
    \/ InitWith(<<>>, TwoOutlets, GoodStatus(<<>>, TwoOutlets))

NextLight ==
    \/ \E t \in Threads : Worker(t)
    \/ \E n \in {NameA, NameB} : SetColor("t2", n, Blue)
    \/ \E n \in {NameP, NameQ} : SetState("t2", n, FALSE)
    \/ \E c \in AllCallers : ChangeValue(c)
    \/ \E m \in {"light", "outlet"} : Shutdown("t1", m)
    \/ ShutdownStop("t1")
    \/ ShutdownJoin("t1")
    \/ \E sp \in 1..MaxSpeed : Len(bulb_params) = 1 /\ Rotate("t1", sp, TRUE)
    \/ RotateRead("t1")
    \/ RotateStore("t1")
    \/ RotateParams("t1")
    \/ RotateOn("t1")
    \/ Len(bulb_params) = 1 /\ Stop("t1")
    \/ RotCheck
    \/ RotStart
    \/ RotPercent
    \/ RotSend
    \/ RotEnd

SpecLight == InitLight /\ [][NextLight]_vars

(***************************************************************************)
(* SpecRotation: a LightManager of three bulbs that report red, blue and   *)
(* no color.  The worker threads connect and query the status; their       *)
(* serving loop, which writes neither a color field nor the cache nor the  *)
(* ring, is left out.  Once every bulb has reported its status, t1 calls   *)
(* rotate(), at most MaxControl times with speed 1 or MaxSpeed, and        *)
(* stop(); no thread sets colors directly.                                 *)
(***************************************************************************)
ThreeBulbs == <<BulbParam(NameA), BulbParam(NameB), BulbParam(NameC)>>

RingStatus ==
    [t \in ThreadsOf(ThreeBulbs, <<>>) |->
        CASE t[2] = 1 -> [dps |-> TRUE, v |-> HsvRed]
          [] t[2] = 2 -> [dps |-> TRUE, v |-> HsvBlue]
          [] OTHER    -> [dps |-> FALSE, v |-> <<>>]]

InitRotation == InitWith(ThreeBulbs, <<>>, RingStatus)

NextRotation ==
    \/ \E t \in Threads : Connect(t)
    \/ \E t \in Threads : QueryStatus(t)
    \/ \E t \in Threads : SetStatusEvent(t)
    \/ \E sp \in {1, MaxSpeed}, cw \in BOOLEAN :
          /\ \A t \in Threads : status_event[t]
          /\ ncalls < MaxControl
          /\ Rotate("t1", sp, cw)
    \/ RotateRead("t1")
    \/ RotateStore("t1")
    \/ RotateParams("t1")
    \/ RotateOn("t1")
    \/ ncalls <= MaxControl /\ Stop("t1")
    \/ \E c \in AllCallers : ChangeValue(c)
    \/ RotCheck
    \/ RotStart
    \/ RotPercent
    \/ RotSend
    \/ RotEnd

SpecRotation == InitRotation /\ [][NextRotation]_vars

(***************************************************************************)
(* SpecNames: a LightManager of one bulb and an OutletManager of two       *)
(* outlets, with their worker threads.  t1 sets outlet states, t2 sets     *)
(* colors and reads outlet states, under configured names, names in the    *)
(* other letter case and unknown names.                                    *)
(***************************************************************************)
NameLowerA == <<"a">>
NameLowerQ == <<"q">>

OneBulb == <<BulbParam(NameA)>>

InitNames == InitWith(OneBulb, TwoOutlets, GoodStatus(OneBulb, TwoOutlets))

NextNames ==
    \/ \E t \in Threads : Worker(t)
    \/ \E n \in {NameA, NameLowerA} : SetColor("t2", n, Blue)
    \/ \E n \in {NameQ, NameLowerQ, NameC} : SetState("t1", n, FALSE)
    \/ \E n \in {NameQ, NameLowerQ, NameC} : GetState("t2", n)
    \/ \E c \in AllCallers : ChangeValue(c)

SpecNames == InitNames /\ [][NextNames]_vars

(***************************************************************************)
(* SpecShutdown: a LightManager of one bulb or an OutletManager of one     *)
(* outlet, with the worker thread and the rotation thread.  t2 starts one  *)
(* rotation or sets the state of the outlet, and both caller threads may   *)
(* call shutdown() of the manager.  Every thread that can take a step      *)
(* eventually takes it: the worker thread, the rotation thread, a thread   *)
(* inside shutdown() and a thread inside change_color / change_state.  No  *)
(* thread is obliged to begin a call.                                      *)
(***************************************************************************)
OneOutlet == <<OutletParam(NameP)>>

InitShutdown ==
    \/ InitWith(OneBulb, <<>>, GoodStatus(OneBulb, <<>>))
    \/ InitWith(<<>>, OneOutlet, GoodStatus(<<>>, OneOutlet))

RotationStep == RotCheck \/ RotStart \/ RotPercent \/ RotSend \/ RotEnd

NextShutdown ==
    \/ \E t \in Threads : Worker(t)
    \/ SetState("t2", NameP, FALSE)
    \/ \E c \in AllCallers : ChangeValue(c)
    \/ \E c \in Callers, m \in {"light", "outlet"} : Shutdown(c, m)
    \/ \E c \in Callers : ShutdownStop(c)
    \/ \E c \in Callers : ShutdownJoin(c)
    \/ /\ Len(bulb_params) = 1 /\ ret["t2"].op # "rotate"
       /\ Rotate("t2", MaxSpeed, TRUE)
    \/ RotateRead("t2")
    \/ RotateStore("t2")
    \/ RotateParams("t2")
    \/ RotateOn("t2")
    \/ RotationStep

FairShutdown ==
    /\ \A t \in ThreadsOf(OneBulb, OneOutlet) : WF_vars(t \in Threads /\ Worker(t))
    /\ \A c \in AllCallers : WF_vars(ChangeValue(c))
    /\ \A c \in Callers : WF_vars(ShutdownStop(c)) /\ WF_vars(ShutdownJoin(c))
    /\ WF_vars(RotationStep)

SpecShutdown == InitShutdown /\ [][NextShutdown]_vars /\ FairShutdown

(***************************************************************************)
(* SpecServe: one bulb or one outlet whose worker thread is never shut     *)
(* down.  The caller threads set colors and states once the worker is in   *)
(* its serving loop.  The worker thread eventually takes every step it can *)
(* take, and so does a caller inside change_color / change_state; no       *)
(* thread is obliged to begin a call.                                      *)
(***************************************************************************)
\* lines 66-71 / 394-399: the worker exists and is in its serving loop
Serving(t) == t \in Threads /\ status_event[t]

NextServe ==
    \/ \E t \in Threads : Worker(t)
    \/ \E c \in Callers, col \in Colors :
          Serving(Bulb(1)) /\ SetColor(c, NameA, col)
    \/ \E c \in Callers, st \in BOOLEAN :
          Serving(Outlet(1)) /\ SetState(c, NameP, st)
    \/ \E c \in AllCallers : ChangeValue(c)

FairServe ==
    /\ \A t \in ThreadsOf(OneBulb, OneOutlet) : WF_vars(t \in Threads /\ Worker(t))
    /\ \A c \in AllCallers : WF_vars(ChangeValue(c))

SpecServe == InitShutdown /\ [][NextServe]_vars /\ FairServe

Last(q) == q[Len(q)]

(***************************************************************************)
(* C1  Coalescing.  When two or more values were stored for a worker       *)
(* between its entering wait() and its wake-up, and no value was stored    *)
(* since the write that followed, the values written to the driver end in  *)
(* the value stored last; in particular an earlier, different value of     *)
(* that wait is not the last value written.                                *)
(***************************************************************************)
C1_Coalescing ==
    \A t \in Threads :
        Len(served[t]) >= 2 =>
            /\ device[t] # <<>>
            /\ device[t][1] = Last(served[t])
            /\ (served[t][1] # Last(served[t]) => device[t][1] # served[t][1])

\* a bulb worker is back in wait() after the write that followed two stores
\* of different colors
C1_Witness ==
    \E t \in BulbThreads :
        /\ Len(served[t]) = 2
        /\ served[t][1] # served[t][2]
        /\ pc[t] = "waiting"
        /\ device[t] = <<served[t][2]>>

(***************************************************************************)
(* C2  change_color / change_state never blocks: whenever a thread is      *)
(* about to enter change_color or change_state of a worker, the lock of    *)
(* that worker's condition is free.                                        *)
(***************************************************************************)
C2_NeverBlocks ==
    \A c \in AllCallers :
        call[c].pc = "change" => ~LockHeld(call[c].t)

(***************************************************************************)
(* C3  set_color with a name that matches no configured bulb returns the   *)
(* structured error result (result "error", the given name) and does not   *)
(* raise.                                                                  *)
(***************************************************************************)
C3_UnknownNameReturnsError ==
    \A c \in AllCallers :
        (ret[c].op = "set_color" /\ find_bulb_index(ret[c].name) = -1) =>
            /\ ret[c].outcome = "return"
            /\ ret[c].result = "error"

(***************************************************************************)
(* C4  Once shutdown() of a manager has returned, every worker thread of   *)
(* that manager has terminated and stays so, and no step changes what was  *)
(* written last to any of its devices, whatever set_color / set_state      *)
(* calls are made or still in progress.                                    *)
(***************************************************************************)
C4_ShutdownFinal ==
    [][\A m \in shut' : \A k \in DOMAIN MgrThreads(m) :
           /\ pc'[MgrThreads(m)[k]] = "terminated"
           /\ (m \in shut => device'[MgrThreads(m)[k]] = device[MgrThreads(m)[k]])]_vars

\* LightManager.shutdown() has returned while a set_color of the rotation
\* tick in progress and a direct set_color are about to call change_color
C4_Witness ==
    /\ "light" \in shut
    /\ call["rw"].pc = "change"
    /\ call["t2"].pc = "change"

\* no thread has called set_color or set_color_hex
C5_NoSetColorYet ==
    \A c \in AllCallers :
        /\ ret[c].op \notin {"set_color", "set_color_hex"}
        /\ call[c].op \notin {"set_color", "set_color_hex"}

\* the color a status payload reports
C5_Reported(d) ==
    IF ~d.dps THEN <<0, 0, 0>>
    ELSE IF d.v = HsvRed THEN <<255, 0, 0>> ELSE <<0, 0, 255>>

(***************************************************************************)
(* C5  For bulbs of distinct names: when wait_ready() has returned, the    *)
(* connection event and the status event of every bulb are set; and when   *)
(* no set_color or set_color_hex call has been made, the cache it left     *)
(* holds for every bulb the color decoded from the bulb's status:          *)
(* (255,0,0) for a bulb reporting red, (0,0,255) for one reporting blue,   *)
(* the initial (0,0,0) for a bulb whose status holds no data points.       *)
(***************************************************************************)
C5_WaitReady ==
    \A c \in Callers :
        ret[c].op = "wait_ready" =>
            /\ \A t \in BulbThreads : connection_event[t] /\ status_event[t]
            /\ C5_NoSetColorYet =>
                   \A i \in 1..Len(bulb_params) :
                       ret[c].cached[i] = C5_Reported(status_data[Bulb(i)])

\* wait_ready() has returned with the cache {A: (255,0,0), B: (0,0,255)}
C5_Witness ==
    /\ ret["t2"].op = "wait_ready"
    /\ C5_NoSetColorYet
    /\ ret["t2"].cached = <<(<<255, 0, 0>>), (<<0, 0, 255>>)>>

(***************************************************************************)
(* C6  A set_color on a configured name that has returned success echoes   *)
(* the color passed, and at its return the cached color of that bulb was   *)
(* the color passed.                                                       *)
(***************************************************************************)
C6_CacheAtReturn ==
    \A c \in Callers :
        (ret[c].op = "set_color" /\ ret[c].result = "success") =>
            /\ ret[c].state = ret[c].arg
            /\ ret[c].cached = ret[c].arg

\* '#' followed by exactly six hex digits
C7_SixHexDigits(str) ==
    /\ Len(str) = 7
    /\ str[1] = "#"
    /\ \A k \in 2..7 : str[k] \in HexDigits

(***************************************************************************)
(* C7  set_color_hex with a string that is not '#' followed by exactly six *)
(* hex digits returns the error result with the reason "color must be hex  *)
(* string like #C0C0C0" and the given name.                                *)
(***************************************************************************)
C7_MalformedRejected ==
    \A c \in Callers :
        (ret[c].op = "set_color_hex" /\ ~C7_SixHexDigits(ret[c].arg)) =>
            /\ ret[c].outcome = "return"
            /\ ret[c].result = "error"
            /\ ret[c].reason = "color must be hex string like #C0C0C0"

\* the ring after k passes: position i holds what was k places further in
\* the direction of next
C8_Shifted(ring, k) ==
    [i \in 1..Len(ring) |->
        ring[((i - 1 + (IF rotation_clockwise THEN k ELSE Len(ring) - k))
                 % Len(ring)) + 1]]

\* the neighbor of position i of the ring, positions counted from 1
C8_Next(i) ==
    IF rotation_clockwise THEN (i % Len(bulb_params)) + 1
    ELSE ((i + Len(bulb_params) - 2) % Len(bulb_params)) + 1

\* the blend of two colors of channels 0..255 at factor j / S, truncated
C8_Lerp(c1, c2, j, S) ==
    [ch \in 1..3 |-> (c1[ch] * (S - j) + c2[ch] * j) \div S]

(***************************************************************************)
(* C8  In a pass that began at cycle 0 with the ring complete, with no     *)
(* rotate() or stop() call since the undisturbed run began: with S the     *)
(* speed and n the number of bulbs, the j-th tick (j = 1..S) uses the      *)
(* blend factor (j-1)/S and leaves S-j ticks of the pass; the bulbs are    *)
(* sent in list order, and the color passed to set_color for bulb i is     *)
(* lerp(ring[i], ring[next(i)], (j-1)/S) with next(i) = i+1 mod n when     *)
(* clockwise and i-1 mod n otherwise, so on the first tick bulb i is sent  *)
(* ring[i]; the ring of a pass is the ring of the first pass moved by one  *)
(* position per completed pass (ring[i] is the previous ring[next(i)]),    *)
(* and after n passes it is the first ring again.                          *)
(***************************************************************************)
C8_RotationPass ==
    clean =>
        LET S == rotation_speed
            ring == C8_Shifted(ring0, passes)
        IN  /\ bulb_rotation_colors = ring
            /\ Len(ring) = Len(bulb_params)
            /\ jtick \in 1..S
            /\ rw.pc \in {"percent", "send"} => rw.original_colors = ring
            /\ rw.pc = "percent" => rw.cycle = S - (jtick - 1)
            /\ rw.pc = "send" =>
                   /\ rw.num = jtick - 1
                   /\ rw.den = S
                   /\ rw.cycle = S - jtick
                   /\ rw.i \in 0..Len(bulb_params)
            /\ (rw.pc = "send" /\ call["rw"].pc = "change") =>
                   /\ call["rw"].k = rw.i
                   /\ call["rw"].name = bulb_params[rw.i]["name"]
                   /\ call["rw"].tmp =
                          C8_Lerp(ring[rw.i], ring[C8_Next(rw.i)], jtick - 1, S)
                   /\ jtick = 1 => call["rw"].tmp = ring[rw.i]
                   /\ (jtick = 1 /\ passes > 0) =>
                          call["rw"].tmp =
                              C8_Shifted(ring0, passes - 1)[C8_Next(rw.i)]
            /\ (rw.pc = "send" /\ call["rw"] = NoCall /\ rw.i >= 1) =>
                   /\ ret["rw"].result = "success"
                   /\ ret["rw"].name = bulb_params[rw.i]["name"]
                   /\ ret["rw"].state =
                          C8_Lerp(ring[rw.i], ring[C8_Next(rw.i)], jtick - 1, S)

\* the last tick of the n-th pass of a counter-clockwise rotation of three
\* different colors at speed MaxSpeed: bulb 1 is sent a blend
C8_Witness ==
    /\ clean
    /\ ~rotation_clockwise
    /\ rotation_speed = MaxSpeed
    /\ Cardinality({ring0[i] : i \in DOMAIN ring0}) = 3
    /\ passes = Len(bulb_params) - 1
    /\ jtick = MaxSpeed
    /\ rw.pc = "send"
    /\ call["rw"].pc = "change"
    /\ call["rw"].k = 1
    /\ call["rw"].tmp # ring0[1]

(***************************************************************************)
(* C9  The first tick that begins after rotate() has returned is the first *)
(* tick of a pass: its blend factor is 0 and it blends the ring that       *)
(* rotate() call captured.                                                 *)
(***************************************************************************)
C9_RestartsPass ==
    (first_tick = "first" /\ rw.pc = "send") =>
        /\ rw.num = 0
        /\ \A c \in Callers :
               ret[c].op = "rotate" => rw.original_colors = ret[c].arg.ring

(***************************************************************************)
(* C10  After stop(), once the rotation_worker is back at the top of its   *)
(* loop, it begins no tick and calls no set_color until rotate() is called *)
(* again; a direct set_color on a configured name that returns while the   *)
(* rotation is stopped returns success and has stored its color in the     *)
(* worker.                                                                 *)
(***************************************************************************)
C10_StopHalts ==
    [][/\ (stopped /\ rw.pc = "loop") =>
              /\ rw'.pc \in {"loop", "done"}
              /\ call'["rw"] = NoCall
       /\ \A c \in Callers :
              (stopped /\ call[c].op = "set_color" /\ call'[c] = NoCall) =>
                  /\ ret'[c].result = "success"
                  /\ val'[call[c].t] = call[c].arg]_vars

\* the rotation has sent a color, stop() was called, and a direct set_color
\* of another color has been written to the bulb
C10_Witness ==
    /\ stopped
    /\ rw.pc = "loop"
    /\ ret["rw"].result = "success"
    /\ ret["t2"].op = "set_color"
    /\ ret["t2"].result = "success"
    /\ ret["t2"].state # ret["rw"].state
    /\ device[Bulb(1)] = <<ret["t2"].state>>

(***************************************************************************)
(* C11  set_state and get_state of the OutletManager called with a name    *)
(* that matches no configured outlet return the error result, with the     *)
(* reason and the given name.                                              *)
(***************************************************************************)
C11_UnknownOutletError ==
    \A c \in Callers :
        (ret[c].op \in {"set_state", "get_state"}
            /\ find_outlet_index(ret[c].name) = -1) =>
            /\ ret[c].outcome = "return"
            /\ ret[c].result = "error"
            /\ ret[c].reason = "outlet name not found"

\* the name differs from a configured name of the list at most in letter case
C12_SameButCase(name, params, k) ==
    /\ name # params[k]["name"]
    /\ Lower(name) = Lower(params[k]["name"])

(***************************************************************************)
(* C12  Name lookup asymmetry.  set_state and get_state called with a name *)
(* that differs from the name of a configured outlet only in letter case   *)
(* succeed and address that outlet's worker: set_state hands the state to  *)
(* that worker and to no other, get_state returns that worker's state.     *)
(* set_color called with a name that differs from the name of a configured *)
(* bulb only in letter case does not succeed, reaches no worker and leaves *)
(* the cached colors as they are.                                          *)
(***************************************************************************)
C12_NameLookup ==
    [][\A c \in Callers :
        /\ \A k \in 1..Len(outlet_param) :
             /\ (call'[c] # call[c] /\ call'[c].op = "set_state"
                    /\ C12_SameButCase(call'[c].name, outlet_param, k)) =>
                   call'[c].t = Outlet(k)
             /\ (ret'[c] # ret[c] /\ ret'[c].op = "set_state"
                    /\ C12_SameButCase(ret'[c].name, outlet_param, k)) =>
                   /\ ret'[c].result = "success"
                   /\ val'[Outlet(k)] = ret'[c].arg
                   /\ \A t \in Threads \ {Outlet(k)} :
                        val'[t] = val[t] /\ pc'[t] = pc[t]
             /\ (ret'[c] # ret[c] /\ ret'[c].op = "get_state"
                    /\ C12_SameButCase(ret'[c].name, outlet_param, k)) =>
                   /\ ret'[c].result = "success"
                   /\ ret'[c].state = val[Outlet(k)]
        /\ \A k \in 1..Len(bulb_params) :
             (ret'[c] # ret[c] /\ ret'[c].op = "set_color"
                    /\ C12_SameButCase(ret'[c].name, bulb_params, k)) =>
                /\ ret'[c].result # "success"
                /\ call'[c] = NoCall
                /\ UNCHANGED <<val, pc, pending, bulb_colors>>
      ]_vars

\* a set_state under the name in the other case was served by the worker of
\* that outlet alone, and a set_color under such a name was refused
C12_Witness ==
    /\ ret["t1"].op = "set_state" /\ ret["t1"].name = NameLowerQ
    /\ ret["t1"].result = "success"
    /\ device[Outlet(2)] = <<FALSE>> /\ device[Outlet(1)] = <<>>
    /\ ret["t2"].op = "set_color" /\ ret["t2"].name = NameLowerA
    /\ bulb_colors[1] = Black /\ device[Bulb(1)] = <<>>

\* the worker of the device issues a driver write in this step
C13_Writes(t) == pc[t] = "set" /\ pc'[t] = "settle"

(***************************************************************************)
(* C13  Per-device serialization and conflation.  The value the driver of  *)
(* a device holds changes only in a step of that device's own worker, in   *)
(* which no caller thread and no rotation step takes part.  The write      *)
(* carries the value stored for the device at that moment, which is the    *)
(* last value requested during the wait the worker woke from.  While the   *)
(* write is in flight the device's stored value does not change, so the    *)
(* value being written is still the most recently requested one, and the   *)
(* worker starts no second write before the first has finished.            *)
(***************************************************************************)
C13_Serialized ==
    [][\A t \in Threads :
        /\ device'[t] # device[t] => C13_Writes(t)
        /\ C13_Writes(t) =>
             /\ device'[t] = <<val[t]>>
             /\ pending[t] # <<>> /\ val[t] = Last(pending[t])
             /\ call' = call /\ ret' = ret /\ rw' = rw
        /\ pc[t] = "settle" =>
             /\ val'[t] = val[t] /\ device'[t] = device[t]
             /\ device[t] = <<val[t]>>
             /\ ~C13_Writes(t)
      ]_vars

\* two values were requested during one wait, the worker wrote the second and
\* the write is in flight
C13_Witness ==
    \E t \in Threads :
        /\ pc[t] = "settle"
        /\ Len(pending[t]) = 2 /\ pending[t][1] # pending[t][2]
        /\ device[t] = <<pending[t][2]>>

(***************************************************************************)
(* C14  Readiness signals of a device worker, bulb or outlet.  In every    *)
(* state a set status event implies a set connection event.  The           *)
(* connection event is set before the status query is made and the status  *)
(* event after it.  Each event is set in one step only, which finds it     *)
(* clear, and an event that is set is never cleared.                       *)
(***************************************************************************)
C14_ReadinessSignals ==
    /\ [](\A t \in Threads :
            /\ status_event[t] => connection_event[t]
            /\ pc[t] = "status" => connection_event[t] /\ ~status_event[t]
            /\ pc[t] = "start" => ~connection_event[t]
            /\ pc[t] \in {"start", "status", "statusset"} => ~status_event[t])
    /\ [][\A t \in Threads :
            /\ connection_event[t] => connection_event'[t]
            /\ status_event[t] => status_event'[t]
            /\ connection_event'[t] # connection_event[t] =>
                 pc[t] = "start" /\ pc'[t] = "status"
            /\ status_event'[t] # status_event[t] =>
                 pc[t] = "statusset" /\ pc'[t] = "loop"
       ]_vars

\* both events of a worker are set and the worker has served a request since
C14_Witness ==
    \E t \in Threads :
        /\ connection_event[t] /\ status_event[t]
        /\ device[t] # <<>> /\ pc[t] = "waiting"

\* the worker returns from wait() notified and goes on to the call of
\* set_color / set_state
C15_WakesToWrite(t) == pc[t] = "notified" /\ pc'[t] = "set"

(***************************************************************************)
(* C15  Shutdown takes precedence over a pending change.  A worker that    *)
(* wakes from its wait after its shutdown() was called does not go on to   *)
(* a driver write, also when a change was stored and notified: every       *)
(* wake-up that leads to a write finds the worker's is_running flag set.   *)
(***************************************************************************)
C15_ShutdownFirst ==
    [][\A t \in Threads : C15_WakesToWrite(t) => is_running[t]]_vars

\* lines 115 / 459: shutdown() of the manager has cleared its is_running
C16_ManagerStopped(m) == IF m = "light" THEN ~lm_is_running ELSE ~om_is_running

\* thread.shutdown() is called on a worker whose flag is already cleared
C16_SecondShutdown(c) ==
    /\ call[c].pc = "sd_stop" /\ call'[c] # call[c]
    /\ ~is_running[MgrThreads(call[c].arg)[call[c].k]]

\* shutdown() of a manager has been called
C16_Called == \E m \in {"light", "outlet"} : C16_ManagerStopped(m)

\* the workers of every manager that was shut down are terminated, and the
\* loop of the rotation thread of a LightManager that was shut down has ended
C16_AllEnded ==
    /\ \A m \in {"light", "outlet"} :
          C16_ManagerStopped(m) =>
              \A k \in 1..Len(MgrThreads(m)) : pc[MgrThreads(m)[k]] = "terminated"
    /\ C16_ManagerStopped("light") => rw.pc \in {"done", "crashed"}

(***************************************************************************)
(* C16  Cooperative shutdown terminates.  With every thread that can take  *)
(* a step eventually taking it, once shutdown() of a manager is called     *)
(* every worker of the manager terminates, whatever it was doing and       *)
(* without any change being requested; the call of shutdown() returns; and *)
(* once the LightManager's is_running is cleared the loop of the rotation  *)
(* thread ends.  A shutdown() of a worker whose flag is already cleared    *)
(* changes nothing of the worker.                                          *)
(***************************************************************************)
C16_ShutdownTerminates ==
    /\ C16_Called ~> C16_AllEnded
    /\ \A c \in Callers :
          (call[c].op = "shutdown") ~> (Idle(c) /\ ret[c].op = "shutdown")
    /\ [][\A c \in Callers : C16_SecondShutdown(c) => UNCHANGED workerVars]_vars

\* shutdown() has returned for a manager whose rotation was mid-pass, the
\* worker has written a color and is terminated, the rotation loop has ended
C16_Witness ==
    /\ "light" \in shut
    /\ \A t \in Threads : pc[t] = "terminated" /\ device[t] # <<>>
    /\ rw.pc = "done" /\ rw.cycle > 0

(***************************************************************************)
(* C17  The rotation blend factor stays in range.  In every tick of the    *)
(* rotation thread the factor cycle_percent = (rotation_speed - cycle) /   *)
(* rotation_speed handed to interpolate_color is at least 0 and less than  *)
(* 1, whatever rotate and stop calls were made with speeds of 1 or more.   *)
(***************************************************************************)
C17_BlendInRange ==
    rw.pc = "send" => 0 <= rw.num /\ rw.num < rw.den

(***************************************************************************)
(* C18  A failed initial handshake never signals readiness.  The status    *)
(* event of a worker is set only when its status query returned a payload  *)
(* with the data points of the device, so wait_ready returns only when     *)
(* every bulb delivered such a payload.                                    *)
(***************************************************************************)
C18_FailedStatusNotReady ==
    /\ \A t \in Threads : status_event[t] => status_data[t].dps
    /\ \A c \in Callers :
          ret[c].op = "wait_ready" => \A t \in BulbThreads : status_data[t].dps

\* change_color / change_state has stored a value for the device
C19_Requested ==
    \E c \in Callers :
        ret[c].op \in {"set_color", "set_state"} /\ ret[c].result = "success"

(***************************************************************************)
(* C19  No lost change.  For a worker in its serving loop that is never    *)
(* shut down, with the worker and the callers taking every step they can   *)
(* take: once a value was stored for the device, the driver is eventually  *)
(* written the value stored last, at whatever point of the worker's loop   *)
(* the store was made.                                                     *)
(***************************************************************************)
C19_NoLostChange ==
    \A t \in ThreadsOf(OneBulb, OneOutlet) :
        (t \in Threads /\ C19_Requested)
            ~> (t \in Threads /\ device[t] = <<val[t]>>)

\* line 253: the rotation thread copies the ring at the start of a pass
C20_StartsPass == rw.pc = "tick" /\ rw'.pc = "percent" /\ rw.cycle = 0

\* lines 267-273: the rotation thread rotates the ring at the end of a pass
C20_RotatesRing ==
    rw.pc = "send" /\ rw'.pc \in {"loop", "crashed"} /\ rw.cycle = 0

(***************************************************************************)
(* C20  Ring integrity under concurrent rotate.  Whenever the rotation     *)
(* thread copies the ring at the start of a pass or rotates it at the end  *)
(* of a pass, the ring it reads holds one entry for every configured bulb, *)
(* whatever rotate() calls run on a caller thread at the same time.        *)
(***************************************************************************)
C20_RingComplete ==
    [][(C20_StartsPass \/ C20_RotatesRing) =>
           Len(bulb_rotation_colors) = Len(bulb_params)]_vars

=============================================================================
